---- MODULE Spec2Model ----
(***************************************************************************)
(* Model of the authenticated API client of src/src/services/api.js:      *)
(* the credential store (tokenManager over localStorage), the axios       *)
(* request interceptor, the axios response interceptor with its           *)
(* refresh-and-retry path, and the authAPI facade methods that write the  *)
(* store (login, logout, refreshToken) next to one ordinary pipeline call *)
(* (getCurrentUser).                                                      *)
(*                                                                         *)
(* JavaScript is single-threaded: a handler runs to its next await        *)
(* without interleaving, so each action below is one such run.  The       *)
(* suspension points are the network calls; the server is free to answer  *)
(* any outstanding call, in any order, with any status.                   *)
(*                                                                         *)
(* window.location.href = '/login' is recorded as the event the UI layer  *)
(* sees.  The navigation it starts does not stop handlers whose responses *)
(* arrive before the page is replaced, so the other calls go on.          *)
(***************************************************************************)
EXTENDS Integers, Sequences, FiniteSets, TLC

\* Number of facade calls the application makes in one run.
MaxReq == 2
\* Number of access tokens the server issues in one run.
MaxTok == 3
\* Number of sessions (refresh token / user profile pairs) the server creates.
MaxSessions == 2

VARIABLES
    localStorage,   \* the credential store: key -> stored string, or Null
    req,            \* facade calls issued so far: 1..Len(req) -> call record
    redirects,      \* log of the assignments window.location.href = '/login'
    issued,         \* server: number of access tokens issued so far
    sessions        \* server: number of sessions created so far

vars == <<localStorage, req, redirects, issued, sessions>>

----------------------------------------------------------------------------
\* Values

Null == <<>>

TOKEN_KEY == "ai_agent_token"
REFRESH_TOKEN_KEY == "ai_agent_refresh_token"
USER_KEY == "ai_agent_user"

Keys == {TOKEN_KEY, REFRESH_TOKEN_KEY, USER_KEY}

AccessToken(n) == <<"access", n>>
RefreshTokenOf(s) == <<"refresh", s>>
\* A user profile object: <<"user", id, role>>
UserOf(s) == <<"user", s, IF s = 1 THEN "admin" ELSE "member">>

\* JSON.stringify / JSON.parse of a user profile object
JSONstringify(v) == <<"json", v[2], v[3]>>
JSONparse(s) == <<"user", s[2], s[3]>>

\* The template literal `Bearer ${token}`
Bearer(t) == <<"Bearer", t>>

\* HTTP outcomes of a network call: a status, or NoResponse when no response
\* was received (network failure, or the timeout of the axios instance).
NoResponse == 0
ErrorStatuses == {401, 500, NoResponse}

----------------------------------------------------------------------------
\* tokenManager

getToken(ls) == ls[TOKEN_KEY]
setToken_WrongKey(ls, token) == [ls EXCEPT ![REFRESH_TOKEN_KEY] = token]
setToken(ls, token) == [ls EXCEPT ![TOKEN_KEY] = token]
getRefreshToken_ReadsTokenKey(ls) == ls[TOKEN_KEY]
getRefreshToken(ls) == ls[REFRESH_TOKEN_KEY]
setRefreshToken(ls, token) == [ls EXCEPT ![REFRESH_TOKEN_KEY] = token]
getUser_Unparsed(ls) == ls[USER_KEY]
getUser(ls) == IF ls[USER_KEY] # Null THEN JSONparse(ls[USER_KEY]) ELSE Null
setUser(ls, user) == [ls EXCEPT ![USER_KEY] = JSONstringify(user)]
clearAll_KeepsUser(ls) == [ls EXCEPT ![TOKEN_KEY] = Null, ![REFRESH_TOKEN_KEY] = Null]
clearAll_KeepsToken(ls) == [ls EXCEPT ![REFRESH_TOKEN_KEY] = Null, ![USER_KEY] = Null]
clearAll_KeepsRefreshToken(ls) == [ls EXCEPT ![TOKEN_KEY] = Null, ![USER_KEY] = Null]
clearAll(ls) == [k \in Keys |-> Null]

EmptyStore == [k \in Keys |-> Null]

\* apiUtils.isAuthenticated: !!tokenManager.getToken(). A stored token is a
\* non-empty string, so it is truthy; getItem gives null for an absent key.
isAuthenticated_ChecksUser(ls) == ls[USER_KEY] # Null
isAuthenticated(ls) == getToken(ls) # Null

\* What a route element renders to: a redirect or the page it wraps.
Navigate(to) == <<"Navigate", to>>
Page(name) == <<"Page", name>>

\* The route guards of App.jsx, as functions of the store read at render.
ProtectedRoute(ls, children) ==
    IF ~isAuthenticated(ls) THEN Navigate("/login") ELSE children

PublicRoute(ls, children) ==
    IF isAuthenticated(ls) THEN Navigate("/dashboard") ELSE children

----------------------------------------------------------------------------
\* Request interceptor: the Authorization header the request leaves with,
\* given the header already on the config.
requestInterceptor_KeepsHeader(ls, header) == header
requestInterceptor_AlwaysBearer(ls, header) == Bearer(getToken(ls))
requestInterceptor(ls, header) ==
    IF getToken(ls) # Null THEN Bearer(getToken(ls)) ELSE header

----------------------------------------------------------------------------
\* Facade calls.  A call record:
\*   kind      the facade method
\*   pc        SENT        a request through the pipeline is awaiting its response
\*             REFRESHING  the response interceptor awaits its refresh call
\*             DIRECT      authAPI.refreshToken awaits its own refresh call
\*             DONE        settled; FAILED  settled on a session-ending path
\*   retry     originalRequest._retry
\*   hdrs      the Authorization header of each send of the request, in order
\*   resp      the status received for each answered send, in order
\*   refreshes number of refresh calls issued for this call
\*   rcall     Authorization header of the outstanding refresh call, or Null
\*   rresp     the status received for the refresh call: <<>> until it is answered
\*   out       what the pipeline delivered: <<"resolved"|"rejected", source, status>>
\*   ret       what the facade method delivered to its caller
\*   nav       the route the caller navigated to once the method returned
\*             (Dashboard.handleLogout, the caller of authAPI.logout)
\*   peers     the calls that were in flight with the same header at send time

Calls == 1..Len(req)

InFlightWith(header) ==
    {q \in Calls : /\ req[q].pc = "SENT"
                   /\ Len(req[q].hdrs) = 1
                   /\ header # Null
                   /\ req[q].hdrs[1] = header}

NewCall(kind, header) ==
    [kind |-> kind, pc |-> "SENT", retry |-> FALSE, hdrs |-> <<header>>,
     resp |-> <<>>, refreshes |-> 0, rcall |-> Null, rresp |-> <<>>,
     out |-> Null, ret |-> "pending", nav |-> <<>>,
     peers |-> InFlightWith(header)]

\* api.get / api.post / api.put: the request interceptor runs, the request leaves.
ApiSend(kind) ==
    /\ Len(req) < MaxReq
    /\ req' = Append(req, NewCall(kind, requestInterceptor(localStorage, Null)))
    /\ UNCHANGED <<localStorage, redirects, issued, sessions>>

Login == ApiSend("login")
Logout == ApiSend("logout")
GetCurrentUser == ApiSend("getCurrentUser")

\* authAPI.refreshToken: posts to /auth/refresh with plain axios, outside the pipeline.
RefreshToken ==
    /\ Len(req) < MaxReq
    /\ req' = Append(req,
            [kind |-> "refreshToken", pc |-> "DIRECT", retry |-> FALSE,
             hdrs |-> <<>>, resp |-> <<>>, refreshes |-> 1,
             rcall |-> Bearer(getRefreshToken(localStorage)), rresp |-> <<>>,
             out |-> Null, ret |-> "pending", nav |-> <<>>, peers |-> {}])
    /\ UNCHANGED <<localStorage, redirects, issued, sessions>>

\* The rest of a facade method after its await of the pipeline: the store it
\* leaves, given the store the pipeline left and what the pipeline delivered.
FacadeStore_LoginSkipsUser(kind, ls, settled, data) ==
    CASE kind = "login" ->
            IF settled = "resolved"
            THEN setRefreshToken(setToken(ls, data.access_token), data.refresh_token)
            ELSE ls
      [] kind = "logout" -> clearAll(ls)
      [] OTHER -> ls
FacadeStore(kind, ls, settled, data) ==
    CASE kind = "login" ->
            IF settled = "resolved"
            THEN setUser(setRefreshToken(setToken(ls, data.access_token),
                                         data.refresh_token), data.user)
            ELSE ls
      [] kind = "logout" -> clearAll(ls)
      [] OTHER -> ls

\* What the facade method delivers to its caller.
FacadeReturn_Propagates(kind, settled) == settled
FacadeReturn_SwallowsAll(kind, settled) == "resolved"
FacadeReturn(kind, settled) ==
    IF kind = "logout" THEN "resolved" ELSE settled

\* Dashboard.handleLogout after its await of authAPI.logout:
\* try { ...; navigate('/login') } catch (error) { ...; navigate('/login') }
handleLogout(ret) ==
    IF ret = "resolved" THEN <<"/login">> ELSE <<"/login">>

\* The source a send's outcome is attributed to.
SendOf(c) == IF Len(c.hdrs) = 1 THEN "original" ELSE "retry"

\* The pipeline delivers to the facade method, which finishes.
Deliver_OriginalError(c, pc, settled, source, status) ==
    [c EXCEPT !.pc = pc, !.rcall = Null,
              !.out = IF source = "refresh"
                      THEN <<settled, "original", 401>>
                      ELSE <<settled, source, status>>,
              !.ret = FacadeReturn(c.kind, settled),
              !.nav = IF c.kind = "logout"
                      THEN handleLogout(FacadeReturn(c.kind, settled))
                      ELSE <<>>]

Deliver(c, pc, settled, source, status) ==
    [c EXCEPT !.pc = pc, !.rcall = Null,
              !.out = <<settled, source, status>>,
              !.ret = FacadeReturn(c.kind, settled),
              !.nav = IF c.kind = "logout"
                      THEN handleLogout(FacadeReturn(c.kind, settled))
                      ELSE <<>>]

\* error.response?.status === 401 && !originalRequest._retry
ShouldRefresh_IgnoresRetryFlag(c, status) == status = 401
ShouldRefresh_AnyFailure(c, status) == ~c.retry
ShouldRefresh_InvertedFlag(c, status) == status = 401 /\ c.retry
ShouldRefresh(c, status) == status = 401 /\ ~c.retry

\* await axios.post(`${API_BASE_URL}/auth/refresh`, {}, {headers: {Authorization}})
StartRefresh(c, refreshToken) ==
    [c EXCEPT !.pc = "REFRESHING", !.refreshes = @ + 1,
              !.rcall = Bearer(refreshToken)]

\* originalRequest.headers.Authorization = `Bearer ${access_token}`;
\* return api(originalRequest): the request interceptor runs again.
RetryRequest_KeepsOldHeader(c, ls, access_token) ==
    [c EXCEPT !.pc = "SENT", !.rcall = Null, !.hdrs = Append(@, c.hdrs[1])]

RetryRequest_FallsThrough(c, ls, access_token) ==
    Deliver(c, "DONE", "rejected", "original", 401)
RetryRequest(c, ls, access_token) ==
    [c EXCEPT !.pc = "SENT", !.rcall = Null,
              !.hdrs = Append(@, requestInterceptor(ls, Bearer(access_token)))]

\* window.location.href = '/login', as seen by the UI layer: which call's
\* handler raised it, whether the store was empty at that moment, and the
\* credential of the refresh call whose failure raised it (Null when there was none).
Redirect_BeforeClear(r, ls, header) ==
    redirects' = Append(redirects,
        [by |-> r, cleared |-> (localStorage = EmptyStore), rcall |-> header])
Redirect(r, ls, header) ==
    redirects' = Append(redirects,
        [by |-> r, cleared |-> (ls = EmptyStore), rcall |-> header])

\* The body of a successful POST /auth/login
LoginData ==
    [access_token |-> AccessToken(issued + 1),
     refresh_token |-> RefreshTokenOf(sessions + 1),
     user |-> UserOf(sessions + 1)]

\* Response interceptor, fulfilled handler: (response) => response
ResponseFulfilled(r) ==
    /\ r \in Calls
    /\ req[r].pc = "SENT"
    /\ IF req[r].kind = "login"
       THEN /\ issued < MaxTok
            /\ sessions < MaxSessions
            /\ issued' = issued + 1
            /\ sessions' = sessions + 1
       ELSE UNCHANGED <<issued, sessions>>
    /\ LET c == [req[r] EXCEPT !.resp = Append(@, 200)]
       IN  req' = [req EXCEPT ![r] = Deliver(c, "DONE", "resolved", SendOf(c), 200)]
    /\ localStorage' = FacadeStore(req[r].kind, localStorage, "resolved", LoginData)
    /\ UNCHANGED redirects

\* Response interceptor, rejected handler: async (error) => { ... }
ResponseRejected(r, status) ==
    /\ r \in Calls
    /\ req[r].pc = "SENT"
    /\ status \in ErrorStatuses
    /\ UNCHANGED <<issued, sessions>>
    /\ LET c == [req[r] EXCEPT !.resp = Append(@, status)]
           marked == [c EXCEPT !.retry = TRUE]
           refreshToken == getRefreshToken(localStorage)
       IN  IF ShouldRefresh(c, status)
           THEN IF refreshToken # Null
                THEN /\ req' = [req EXCEPT ![r] = StartRefresh(marked, refreshToken)]
                     /\ UNCHANGED <<localStorage, redirects>>
                ELSE /\ Redirect(r, clearAll(localStorage), Null)
                     /\ req' = [req EXCEPT ![r] =
                            Deliver(marked, "FAILED", "rejected", SendOf(c), status)]
                     /\ localStorage' = FacadeStore(c.kind, clearAll(localStorage),
                                                    "rejected", Null)
           ELSE /\ req' = [req EXCEPT ![r] =
                       Deliver(c, "DONE", "rejected", SendOf(c), status)]
                /\ localStorage' = FacadeStore(c.kind, localStorage, "rejected", Null)
                /\ UNCHANGED redirects

\* The refresh call awaited at line 74 is fulfilled: store the new access
\* token, put it on the original request and send that again through api.
RefreshFulfilled(r) ==
    /\ r \in Calls
    /\ req[r].pc = "REFRESHING"
    /\ issued < MaxTok
    /\ issued' = issued + 1
    /\ LET access_token == AccessToken(issued + 1)
           ls == setToken(localStorage, access_token)
           c == [req[r] EXCEPT !.rresp = <<200>>]
       IN  /\ localStorage' = ls
           /\ req' = [req EXCEPT ![r] = RetryRequest(c, ls, access_token)]
    /\ UNCHANGED <<redirects, sessions>>

\* The refresh call awaited at line 74 is rejected: catch (refreshError)
RefreshRejected(r, status) ==
    /\ r \in Calls
    /\ req[r].pc = "REFRESHING"
    /\ status \in ErrorStatuses
    /\ Redirect(r, clearAll(localStorage), req[r].rcall)
    /\ LET c == [req[r] EXCEPT !.rresp = <<status>>]
       IN  req' = [req EXCEPT ![r] = Deliver(c, "FAILED", "rejected", "refresh", status)]
    /\ localStorage' = FacadeStore(req[r].kind, clearAll(localStorage), "rejected", Null)
    /\ UNCHANGED <<issued, sessions>>

\* authAPI.refreshToken after its await, fulfilled.  The server accepts only
\* a refresh call that carries a refresh token.
DirectFulfilled(r) ==
    /\ r \in Calls
    /\ req[r].pc = "DIRECT"
    /\ req[r].rcall # Bearer(Null)
    /\ issued < MaxTok
    /\ issued' = issued + 1
    /\ localStorage' = setToken(localStorage, AccessToken(issued + 1))
    /\ LET c == [req[r] EXCEPT !.rresp = <<200>>]
       IN  req' = [req EXCEPT ![r] = Deliver(c, "DONE", "resolved", "refresh", 200)]
    /\ UNCHANGED <<redirects, sessions>>

\* authAPI.refreshToken after its await, rejected: the error propagates
DirectRejected(r, status) ==
    /\ r \in Calls
    /\ req[r].pc = "DIRECT"
    /\ status \in ErrorStatuses
    /\ LET c == [req[r] EXCEPT !.rresp = <<status>>]
       IN  req' = [req EXCEPT ![r] = Deliver(c, "DONE", "rejected", "refresh", status)]
    /\ UNCHANGED <<localStorage, redirects, issued, sessions>>

----------------------------------------------------------------------------
\* localStorage survives restarts: the page starts either with no session or
\* with the record a previous login stored.
StoredSession(s, n) ==
    setUser(setRefreshToken(setToken(EmptyStore, AccessToken(n)),
                            RefreshTokenOf(s)), UserOf(s))

Init ==
    /\ req = <<>>
    /\ redirects = <<>>
    /\ \/ localStorage = EmptyStore /\ issued = 0 /\ sessions = 0
       \/ localStorage = StoredSession(1, 1) /\ issued = 1 /\ sessions = 1

Next ==
    \/ GetCurrentUser
    \/ Logout
    \/ Login
    \/ RefreshToken
    \/ \E r \in 1..MaxReq : ResponseFulfilled(r)
    \/ \E r \in 1..MaxReq, status \in ErrorStatuses : ResponseRejected(r, status)
    \/ \E r \in 1..MaxReq : RefreshFulfilled(r)
    \/ \E r \in 1..MaxReq, status \in ErrorStatuses : RefreshRejected(r, status)
    \/ \E r \in 1..MaxReq : DirectFulfilled(r)
    \/ \E r \in 1..MaxReq, status \in ErrorStatuses : DirectRejected(r, status)

Spec == Init /\ [][Next]_vars

\* The axios instance `api` is created with timeout: 10000: a request sent
\* through it that has no answer by then is rejected without a response.
Timeout(r) == ResponseRejected(r, NoResponse)

\* The timers of the requests sent through api do fire; nothing obliges the
\* server to answer, and the refresh calls made with plain axios carry no
\* timeout.
FairSpec == Spec /\ \A r \in 1..MaxReq : WF_vars(Timeout(r))

----------------------------------------------------------------------------
\* Properties

Last(q) == q[Len(q)]

PipelineCalls == {r \in Calls : req[r].kind # "refreshToken"}

\* r's first send was answered 401
FirstSend401(r) == Len(req[r].resp) >= 1 /\ req[r].resp[1] = 401

\* The step answers the outstanding send of call r with `status`
Answered(r, status) ==
    /\ req[r].pc = "SENT"
    /\ Len(req'[r].resp) = Len(req[r].resp) + 1
    /\ Last(req'[r].resp) = status

\* C1: requests that were in flight together with the same access token and
\* whose first send was answered 401 cause exactly one refresh call in total,
\* and those that are sent again all carry the same access token.
C1_OneRefreshForConcurrent401s ==
    \A r1 \in PipelineCalls, r2 \in PipelineCalls :
        ( /\ r1 \in req[r2].peers
          /\ FirstSend401(r1) /\ FirstSend401(r2)
          /\ req[r1].refreshes + req[r2].refreshes >= 1 )
        => /\ req[r1].refreshes + req[r2].refreshes = 1
           /\ (Len(req[r1].hdrs) = 2 /\ Len(req[r2].hdrs) = 2
                 => req[r1].hdrs[2] = req[r2].hdrs[2])

\* C2: no two refresh calls issued by the response interceptor with the same
\* refresh token are outstanding at the same time.
C2_NoOverlappingRefresh ==
    \A r1 \in Calls, r2 \in Calls :
        (r1 # r2 /\ req[r1].pc = "REFRESHING" /\ req[r2].pc = "REFRESHING")
        => req[r1].rcall # req[r2].rcall

\* C3: the failure of refresh calls made with one refresh token raises the
\* redirect to /login exactly once, however many calls were refreshing with it.
C3_OneRedirectPerFailedSession ==
    \A i \in DOMAIN redirects :
        redirects[i].rcall # Null
        => Cardinality({j \in DOMAIN redirects :
                           redirects[j].rcall = redirects[i].rcall}) = 1

\* C4: the store holds the access token, the refresh token and the user
\* profile all together, or none of them.
C4_AllOrNothing ==
    \/ \A k \in Keys : localStorage[k] = Null
    \/ \A k \in Keys : localStorage[k] # Null

\* C5: a call whose refresh call succeeded made exactly one refresh call and
\* was sent exactly twice, the first send having been answered 401; once
\* settled, its caller holds the outcome of the second send.
C5_OneRefreshOneRetry ==
    \A r \in PipelineCalls :
        req[r].rresp = <<200>>
        => /\ req[r].refreshes = 1
           /\ Len(req[r].hdrs) = 2
           /\ FirstSend401(r)
           /\ \/ req[r].pc = "SENT" /\ Len(req[r].resp) = 1
              \/ /\ req[r].pc = "DONE"
                 /\ Len(req[r].resp) = 2
                 /\ req[r].out = <<IF req[r].resp[2] = 200 THEN "resolved" ELSE "rejected",
                                   "retry", req[r].resp[2]>>

C5_Witness ==
    \E r \in PipelineCalls :
        /\ req[r].rresp = <<200>>
        /\ req[r].out = <<"resolved", "retry", 200>>

\* C6: a call is sent at most twice and makes at most one refresh call; a 401
\* to its second send ends it, and that 401 is what its caller receives.
C6_AtMostOneRetry ==
    \A r \in PipelineCalls :
        /\ Len(req[r].hdrs) <= 2
        /\ req[r].refreshes <= 1
        /\ (Len(req[r].resp) >= 2 /\ req[r].resp[2] = 401)
            => /\ req[r].pc = "DONE"
               /\ req[r].out = <<"rejected", "retry", 401>>
               /\ Len(req[r].hdrs) = 2
               /\ req[r].refreshes = 1

C6_Witness ==
    \E r \in PipelineCalls : req[r].resp = <<401, 401>> /\ req[r].pc = "DONE"

\* C7: when the server rejects a call's refresh call, the step that delivers
\* the failure leaves the store without any of its three entries, and the
\* call fails without having been sent again.
C7_RefreshRejectedEmptiesStore ==
    [][\A r \in Calls :
          ( /\ req[r].pc = "REFRESHING"
            /\ Len(req'[r].rresp) = 1
            /\ req'[r].rresp[1] \notin {200, NoResponse} )
          => /\ \A k \in Keys : localStorage'[k] = Null
             /\ req'[r].pc = "FAILED"
             /\ req'[r].out[1] = "rejected"
             /\ req'[r].hdrs = req[r].hdrs]_vars

C7_Witness ==
    \E r \in PipelineCalls :
        /\ req[r].pc = "FAILED"
        /\ req[r].rresp = <<401>>
        /\ Len(req[r].hdrs) = 1

\* C8: a 401 to a call not yet retried, while the store holds no refresh
\* token, issues no refresh call, empties the store, raises the redirect and
\* fails the call without sending it again.
C8_NoRefreshTokenEndsSession ==
    [][\A r \in Calls :
          ( /\ Answered(r, 401)
            /\ ~req[r].retry
            /\ getRefreshToken(localStorage) = Null )
          => /\ req'[r].refreshes = 0
             /\ req'[r].rcall = Null
             /\ \A k \in Keys : localStorage'[k] = Null
             /\ Len(redirects') = Len(redirects) + 1
             /\ Last(redirects').by = r
             /\ req'[r].pc = "FAILED"
             /\ req'[r].out[1] = "rejected"
             /\ req'[r].hdrs = req[r].hdrs]_vars

C8_Witness ==
    \E r \in PipelineCalls :
        /\ req[r].pc = "FAILED"
        /\ req[r].out = <<"rejected", "original", 401>>
        /\ req[r].refreshes = 0
        /\ \E i \in DOMAIN redirects : redirects[i].by = r

\* C9: a successful refresh call replaces the stored access token and leaves
\* the stored refresh token and the stored user profile as they were.
C9_RefreshWritesOnlyAccessToken ==
    [][\A r \in Calls :
          (req[r].rresp = <<>> /\ req'[r].rresp = <<200>>)
          => /\ getRefreshToken(localStorage') = getRefreshToken(localStorage)
             /\ localStorage'[USER_KEY] = localStorage[USER_KEY]
             /\ getToken(localStorage') = AccessToken(issued')]_vars

C9_Witness ==
    \E r \in PipelineCalls :
        /\ req[r].rresp = <<200>>
        /\ getRefreshToken(localStorage) # Null
        /\ getToken(localStorage) = Last(req[r].hdrs)[2]

\* C10: an answer other than 401 (a success, another status, or no response
\* at all) issues no refresh call, does not send the request again, raises no
\* redirect and is delivered as it is; the pipeline leaves the store alone
\* (seen on the calls whose facade method does not write the store itself).
C10_OnlyA401StartsRefresh ==
    [][\A r \in Calls, status \in {200, 500, NoResponse} :
          Answered(r, status)
          => /\ req'[r].refreshes = req[r].refreshes
             /\ req'[r].rcall = Null
             /\ req'[r].hdrs = req[r].hdrs
             /\ req'[r].pc = "DONE"
             /\ req'[r].out = <<IF status = 200 THEN "resolved" ELSE "rejected",
                                SendOf(req[r]), status>>
             /\ redirects' = redirects
             /\ (req[r].kind = "getCurrentUser" => localStorage' = localStorage)]_vars

C10_Witness ==
    \E r1 \in PipelineCalls, r2 \in PipelineCalls :
        /\ req[r1].kind = "getCurrentUser"
        /\ req[r1].out = <<"rejected", "original", NoResponse>>
        /\ req[r2].out = <<"rejected", "original", 500>>
        /\ redirects = <<>>
        /\ getRefreshToken(localStorage) # Null

\* The step sends call r through the pipeline: its first send or its retry
Sent(r) ==
    /\ req'[r].kind # "refreshToken"
    /\ IF r \in Calls
       THEN Len(req'[r].hdrs) = Len(req[r].hdrs) + 1
       ELSE Len(req'[r].hdrs) = 1

\* C11: a request that leaves while the store holds an access token carries,
\* as its Authorization header, Bearer followed by the access token the store
\* holds at that moment.
C11_BearerOfStoredToken ==
    [][\A r \in 1..Len(req') :
          (Sent(r) /\ getToken(localStorage') # Null)
          => Last(req'[r].hdrs) = Bearer(getToken(localStorage'))]_vars

C11_Witness ==
    \E r \in PipelineCalls :
        /\ Len(req[r].hdrs) = 2
        /\ req[r].hdrs[1] = Bearer(AccessToken(1))
        /\ req[r].hdrs[2] = Bearer(AccessToken(2))

\* C12: a call made through the pipeline while the store holds no access
\* token leaves without an Authorization header, and it does leave: the request
\* step neither blocks nor rejects it.
C12_NoTokenNoHeader ==
    [][\A r \in 1..Len(req') :
          ( /\ r \notin Calls
            /\ req'[r].kind # "refreshToken"
            /\ getToken(localStorage) = Null )
          => /\ req'[r].pc = "SENT"
             /\ req'[r].hdrs = <<Null>>
             /\ req'[r].out = Null]_vars

C12_Witness ==
    \E r \in PipelineCalls :
        /\ req[r].kind = "login"
        /\ req[r].hdrs = <<Null>>
        /\ req[r].out = <<"resolved", "original", 200>>
        /\ getToken(localStorage) # Null

\* C13: every redirect to /login, whether raised by a failed refresh call or
\* by a 401 without a refresh token, is raised with the store already empty.
C13_ClearedBeforeRedirect ==
    \A i \in DOMAIN redirects : redirects[i].cleared

C13_Witness ==
    \E i \in DOMAIN redirects, j \in DOMAIN redirects :
        /\ redirects[i].rcall # Null
        /\ redirects[j].rcall = Null
        /\ redirects[i].cleared /\ redirects[j].cleared

\* The step delivers a 401 failure of source `source` to the caller of call r
Delivers401(r, source) ==
    /\ req[r].out = Null
    /\ req'[r].out = <<"rejected", source, 401>>

\* C14: a 401 reaches the caller only as the answer to the retry, as the
\* failure of the refresh call, or as the answer to the first send when the
\* store held no refresh token; a first 401 that finds a refresh token in the
\* store is not delivered, a refresh call is made instead.
C14_401OnlyWhenRefreshImpossible ==
    [][\A r \in PipelineCalls :
          /\ Delivers401(r, "retry") => req[r].retry /\ req[r].rresp = <<200>>
          /\ Delivers401(r, "refresh") => req[r].pc = "REFRESHING"
          /\ Delivers401(r, "original") => getRefreshToken(localStorage) = Null
          /\ ( /\ Answered(r, 401)
               /\ ~req[r].retry
               /\ getRefreshToken(localStorage) # Null )
             => /\ req'[r].out = Null
                /\ req'[r].pc = "REFRESHING"
                /\ req'[r].ret = "pending"]_vars

C14_Witness ==
    \E r1 \in PipelineCalls, r2 \in PipelineCalls :
        /\ req[r1].out = <<"rejected", "retry", 401>>
        /\ req[r2].out = <<"rejected", "original", 401>>

\* The step in which the facade method of call r returns to its caller
Returns(r) == req[r].ret = "pending" /\ req'[r].ret # "pending"

\* C15: when authAPI.logout returns, the store holds none of its three
\* entries and the caller sees no failure, whatever became of the POST
\* /auth/logout call; the dashboard then navigates to /login.
C15_LogoutAlwaysClears ==
    [][\A r \in Calls :
          (req[r].kind = "logout" /\ Returns(r))
          => /\ \A k \in Keys : localStorage'[k] = Null
             /\ req'[r].ret = "resolved"
             /\ req'[r].nav = <<"/login">>]_vars

C15_Witness ==
    \E r1 \in Calls, r2 \in Calls :
        /\ req[r1].kind = "logout" /\ req[r2].kind = "logout"
        /\ req[r1].out = <<"resolved", "original", 200>>
        /\ req[r2].out # Null
        /\ req[r2].out[1] = "rejected"
        /\ req[r2].ret = "resolved"
        /\ req[r2].nav = <<"/login">>

\* C16: the step in which a successful authAPI.login returns leaves in the
\* store the access token, the refresh token and the user profile of the login
\* response; a failed login writes nothing, each entry is as it was or removed
\* by the pipeline.
C16_LoginWritesAllOrNothing ==
    [][\A r \in Calls :
          (req[r].kind = "login" /\ Returns(r))
          => IF req'[r].ret = "resolved"
             THEN /\ getToken(localStorage') = LoginData.access_token
                  /\ getRefreshToken(localStorage') = LoginData.refresh_token
                  /\ getUser(localStorage') = LoginData.user
             ELSE \A k \in Keys : localStorage'[k] \in {localStorage[k], Null}]_vars

C16_Witness ==
    \E r1 \in Calls, r2 \in Calls :
        /\ req[r1].kind = "login" /\ req[r2].kind = "login"
        /\ req[r1].ret = "rejected"
        /\ req[r2].ret = "resolved"
        /\ localStorage = StoredSession(sessions, issued)

\* C17: no request sent through the pipeline, first send or retry, carries a
\* refresh token in its Authorization header, and no refresh call carries an
\* access token.
C17_RefreshTokenOnlyOnRefreshCalls ==
    \A r \in Calls :
        /\ \A i \in DOMAIN req[r].hdrs :
              req[r].hdrs[i] # Null
              => req[r].hdrs[i][2] # Null /\ req[r].hdrs[i][2][1] = "access"
        /\ (req[r].rcall # Null /\ req[r].rcall[2] # Null)
              => req[r].rcall[2][1] = "refresh"

C17_Witness ==
    \E r1 \in Calls, r2 \in Calls :
        /\ req[r1].pc = "REFRESHING"
        /\ req[r1].rcall = Bearer(RefreshTokenOf(1))
        /\ Len(req[r2].hdrs) = 2
        /\ req[r2].hdrs[2] = Bearer(AccessToken(2))

C19_EveryFacadeThroughPipeline ==
    \A r \in Calls :
        /\ Len(req[r].hdrs) >= 1
        /\ req[r].out # Null => req[r].ret = req[r].out[1]

\* C19 as amended: every facade method but authAPI.refreshToken issues one
\* call through the pipeline and sends nothing more itself (a second send is
\* the pipeline's retry after a successful refresh); every facade method but
\* authAPI.logout hands the pipeline's outcome to its caller unchanged;
\* authAPI.logout resolves whatever the outcome, and authAPI.refreshToken
\* sends nothing through the pipeline.
C19_FacadesButLogoutAndRefreshToken ==
    \A r \in Calls :
        /\ req[r].kind # "refreshToken"
            => Len(req[r].hdrs) = 1 + (IF req[r].rresp = <<200>> THEN 1 ELSE 0)
        /\ req[r].kind = "refreshToken"
            => req[r].hdrs = <<>> /\ req[r].pc \in {"DIRECT", "DONE"}
        /\ req[r].out = Null => req[r].ret = "pending"
        /\ (req[r].out # Null /\ req[r].kind # "logout")
            => req[r].ret = req[r].out[1]
        /\ (req[r].out # Null /\ req[r].kind = "logout")
            => req[r].ret = "resolved"

C19_Witness ==
    \E r1 \in Calls, r2 \in Calls :
        /\ req[r1].kind = "getCurrentUser"
        /\ req[r1].out = <<"rejected", "original", 500>>
        /\ req[r1].ret = "rejected"
        /\ req[r2].kind = "logout"
        /\ req[r2].out = <<"rejected", "original", 500>>
        /\ req[r2].ret = "resolved"

\* C20: a request whose first 401 arrives after the refresh call of another
\* request sent with the same access token has succeeded makes no refresh call
\* of its own: it is sent again with the access token now in the store.
C20_OneRefreshPerGeneration ==
    [][\A r1 \in PipelineCalls, r2 \in PipelineCalls :
          ( /\ r1 # r2
            /\ req[r1].hdrs[1] # Null
            /\ req[r1].hdrs[1] = req[r2].hdrs[1]
            /\ req[r1].rresp = <<200>>
            /\ ~req[r2].retry
            /\ Answered(r2, 401) )
          => /\ req'[r2].refreshes = 0
             /\ req'[r2].pc = "SENT"
             /\ Len(req'[r2].hdrs) = 2
             /\ Last(req'[r2].hdrs) = Bearer(getToken(localStorage))]_vars

\* C21: every call that went through the pipeline eventually settles, DONE
\* or FAILED, whether or not the server answers the calls made for it.
Settled(r) == r \in Calls /\ req[r].pc \in {"DONE", "FAILED"}

C21_EveryCallSettles ==
    \A r \in 1..MaxReq : [](r \in PipelineCalls => <>Settled(r))

\* C22: when the refresh call made for a request succeeds, the request that
\* is sent again is the same call, marked as retried, and its Authorization
\* header is the Bearer of the access token that refresh just returned, not
\* the header of the first send.
C22_RetryCarriesRefreshedToken ==
    [][\A r \in 1..MaxReq :
          (r \in Calls /\ req[r].pc = "REFRESHING" /\ req'[r].rresp = <<200>>)
              => /\ req'[r].pc = "SENT"
                 /\ req'[r].kind = req[r].kind
                 /\ req'[r].retry
                 /\ Len(req'[r].hdrs) = 2
                 /\ req'[r].hdrs[2] = Bearer(AccessToken(issued'))
                 /\ issued' = issued + 1
                 /\ req'[r].hdrs[2] # req'[r].hdrs[1]
                 /\ req'[r].hdrs[1] = req[r].hdrs[1]]_vars

C22_Witness ==
    \E r \in Calls :
        /\ req[r].rresp = <<200>>
        /\ req[r].retry
        /\ Len(req[r].hdrs) = 2
        /\ req[r].hdrs[1] = Bearer(AccessToken(1))
        /\ req[r].hdrs[2] = Bearer(AccessToken(2))

\* C23: in every state, isAuthenticated() is true exactly when the store
\* holds an access token at that moment, whatever the other two keys hold;
\* a render of /dashboard then shows the dashboard when it is true and
\* redirects to /login otherwise, and a render of /login redirects to
\* /dashboard when it is true and shows the login page otherwise.
C23_GuardsFollowStoredToken ==
    LET held == localStorage[TOKEN_KEY] # Null
    IN  /\ isAuthenticated(localStorage) <=> held
        /\ ProtectedRoute(localStorage, Page("Dashboard"))
               = (IF held THEN Page("Dashboard") ELSE Navigate("/login"))
        /\ PublicRoute(localStorage, Page("Login"))
               = (IF held THEN Navigate("/dashboard") ELSE Page("Login"))

C23_Witness ==
    /\ localStorage[TOKEN_KEY] # Null
    /\ localStorage[USER_KEY] = Null
    /\ \E r \in Calls : req[r].rresp = <<200>>
    /\ ProtectedRoute(localStorage, Page("Dashboard")) = Page("Dashboard")
    /\ PublicRoute(localStorage, Page("Login")) = Navigate("/dashboard")

\* The store has been cleared before: a logout has returned or a session
\* has been ended with a redirect.
ClearedBefore ==
    \/ Len(redirects) > 0
    \/ \E r \in Calls : req[r].kind = "logout" /\ req[r].ret # "pending"

\* C24: once a logout or a session end has emptied the store, the store
\* stays empty until a login succeeds: a step that writes into the empty
\* store is the step in which a login call returns successfully.
C24_EmptyUntilNextLogin ==
    [][(ClearedBefore /\ localStorage = EmptyStore /\ localStorage' # EmptyStore)
          => \E r \in Calls : /\ req[r].kind = "login"
                              /\ Returns(r)
                              /\ req'[r].ret = "resolved"]_vars

\* The refresh call made for r fails in this step.
RefreshFails(r) ==
    /\ r \in Calls
    /\ req[r].pc = "REFRESHING"
    /\ Len(req'[r].rresp) = 1
    /\ req'[r].rresp # <<200>>

\* C25: when the refresh call that fails carries the refresh token of an
\* older session than the one the store now holds (a login succeeded while
\* it was in flight), the store keeps the login's credentials and no
\* redirect to /login is made.
C25_OldRefreshSparesNewSession ==
    [][\A r \in 1..MaxReq :
          (/\ RefreshFails(r)
           /\ req[r].kind = "getCurrentUser"
           /\ getRefreshToken(localStorage) # Null
           /\ req[r].rcall # Bearer(getRefreshToken(localStorage)))
              => /\ localStorage' = localStorage
                 /\ redirects' = redirects]_vars

\* C26: a refresh call that fails without any response leaves the store as
\* it is and makes no redirect to /login.
C26_NetworkFailureKeepsSession ==
    [][\A r \in 1..MaxReq :
          (/\ RefreshFails(r)
           /\ req[r].kind = "getCurrentUser"
           /\ req'[r].rresp = <<NoResponse>>)
              => /\ localStorage' = localStorage
                 /\ redirects' = redirects]_vars

\* C27: in every state, a store that holds a refresh token also holds an
\* access token and a user profile.
C27_RefreshTokenImpliesSession ==
    localStorage[REFRESH_TOKEN_KEY] # Null
        => /\ localStorage[TOKEN_KEY] # Null
           /\ localStorage[USER_KEY] # Null

C27_Witness ==
    /\ localStorage[REFRESH_TOKEN_KEY] # Null
    /\ \E r \in Calls : req[r].kind = "logout" /\ req[r].ret = "resolved"
    /\ \E r \in Calls : req[r].kind = "login" /\ req[r].ret = "resolved"

\* C28: a call whose refresh call failed has delivered a rejection that
\* carries the refresh call's error; a call whose first send was answered
\* 401 and for which no refresh call was made (the store held no refresh
\* token) has delivered a rejection that carries that 401. In both cases
\* the call is FAILED and its outcome is neither a resolution nor missing;
\* every facade method but logout passes the rejection on to its caller.
C28_FailureNamesItsPath ==
    \A r \in PipelineCalls :
        /\ (Len(req[r].rresp) = 1 /\ req[r].rresp # <<200>>)
               => /\ req[r].pc = "FAILED"
                  /\ req[r].out = <<"rejected", "refresh", req[r].rresp[1]>>
                  /\ (req[r].kind # "logout" => req[r].ret = "rejected")
        /\ (req[r].resp = <<401>> /\ req[r].refreshes = 0)
               => /\ req[r].pc = "FAILED"
                  /\ req[r].out = <<"rejected", "original", 401>>
                  /\ (req[r].kind # "logout" => req[r].ret = "rejected")

C28_Witness ==
    \E r1, r2 \in PipelineCalls :
        /\ req[r1].resp = <<401>>
        /\ req[r1].rresp = <<NoResponse>>
        /\ req[r1].out = <<"rejected", "refresh", NoResponse>>
        /\ req[r2].resp = <<401>>
        /\ req[r2].refreshes = 0
        /\ req[r2].out = <<"rejected", "original", 401>>

====
